---------------------------- MODULE Spec2Model ----------------------------
(***************************************************************************)
(* SentinelAI: conflict scoring of chat messages.                          *)
(*                                                                         *)
(*   rules.py  tokenizer, lexicons, feature extraction, weighted scorer,   *)
(*             risk tiers (apply_rules)                                    *)
(*   model.py  analyze_message: transformers pipelines when they loaded,   *)
(*             else a substring heuristic                                  *)
(*   app.py    analyze_text (model + rules + caps / exclamation            *)
(*             heuristics) and the Streamlit script around it              *)
(*                                                                         *)
(* A text is a sequence of one-character strings.  Scores are integers in  *)
(* thousandths (0.35 is 350): every weight, bonus and threshold of the     *)
(* code is a multiple of 0.05, every value the code publishes is rounded   *)
(* to three places (rules.py:176, model.py:64-66, 102-104), and the        *)
(* binary-float sums of the weights differ from the decimal sums by less   *)
(* than 1e-15 and never across 0.3, 0.6 or 1.0, so the thousandths are     *)
(* the values the program compares and returns.                            *)
(***************************************************************************)
EXTENDS Integers, Sequences, FiniteSets, TLC

VARIABLES
    features,        \* scorer run: the FeatureSet being scored
    rules_out,       \* scorer run: result of scoring `features`
    prev_out,        \* scorer run: result before the last feature was set
    text,            \* the text argument of the call under study
    model_output,    \* the model_output dict passed to rules.py directly
    extracted,       \* outcome of extract_rule_features(text, model_output)
    applied,         \* outcome of apply_rules(text, model_output)
    MODEL_AVAILABLE, \* model.py module global, fixed at import
    inference,       \* what the pipelines did in the last analyze_message
    analysis,        \* result of the last direct analyze_text call
    messages,        \* st.session_state.messages
    current_user,    \* st.session_state.current_user
    last_analysis,   \* st.session_state.last_analysis
    user,            \* value of the "Select User" selectbox
    new_message,     \* value of the message text_input
    analyzed         \* texts analyze_text has been called with by the script

vars ==
    << features, rules_out, prev_out, text, model_output, extracted, applied,
       MODEL_AVAILABLE, inference, analysis, messages, current_user,
       last_analysis, user, new_message, analyzed >>

scorerVars == << features, rules_out, prev_out >>
rulesVars == << model_output, extracted, applied >>
analyzeVars == << inference, analysis >>
uiVars == << messages, current_user, last_analysis, user, new_message, analyzed >>

-----------------------------------------------------------------------------
(* Bounds of the model.                                                    *)

\* Longest text, in words, that the direct calls are given.
MaxWords == 2
\* Most '!' characters appended to such a text.
MaxBang == 3
\* Most messages sent through the Send button in one session.
MaxSent == 1

-----------------------------------------------------------------------------
(* Python values.                                                          *)

\* A value stored in a dict whose fields the code reads without checking
\* their type: a float (in thousandths), a str, or None.
Num(n) == [t |-> "num", n |-> n, s |-> ""]
Str(s) == [t |-> "str", n |-> 0, s |-> s]
NoneV == [t |-> "none", n |-> 0, s |-> ""]

Min(a, b) == IF a <= b THEN a ELSE b

-----------------------------------------------------------------------------
(* Characters and the str methods the code uses.                           *)

UPPER ==
    <<"A","B","C","D","E","F","G","H","I","J","K","L","M",
      "N","O","P","Q","R","S","T","U","V","W","X","Y","Z">>
LOWER ==
    <<"a","b","c","d","e","f","g","h","i","j","k","l","m",
      "n","o","p","q","r","s","t","u","v","w","x","y","z">>
DIGITS == <<"0","1","2","3","4","5","6","7","8","9">>

Range(f) == { f[i] : i \in DOMAIN f }

\* c.isupper()
isupper(c) == c \in Range(UPPER)

\* c.lower()
lowerChar(c) ==
    IF isupper(c)
    THEN LOWER[CHOOSE i \in DOMAIN UPPER : UPPER[i] = c]
    ELSE c

\* text.lower()
lower(s) == [i \in DOMAIN s |-> lowerChar(s[i])]

\* c matches \w
isWordChar(c) == c \in Range(UPPER) \cup Range(LOWER) \cup Range(DIGITS) \cup {"_"}

\* c.isspace()
isspace(c) == c \in {" ", "\t", "\n"}

\* not text.strip(): nothing is left once the whitespace is stripped
stripsToEmpty(s) == \A i \in DOMAIN s : isspace(s[i])

\* not text: the empty str is falsy
falsy(s) == Len(s) = 0

\* w in s, for strs
contains(s, w) ==
    \E i \in 0..(Len(s) - Len(w)) : SubSeq(s, i + 1, i + Len(w)) = w

\* text.count("!") and sum(1 for c in text if c.isupper())
countChar(s, c) == Cardinality({ i \in DOMAIN s : s[i] = c })
countUpper(s) == Cardinality({ i \in DOMAIN s : isupper(s[i]) })

\* len(text.split()): the maximal runs of non-whitespace characters
wordCount(s) ==
    Cardinality({ i \in DOMAIN s :
        /\ ~isspace(s[i])
        /\ (i = 1 \/ isspace(s[i - 1])) })

-----------------------------------------------------------------------------
(* rules.py: vocabularies.                                                 *)

SECOND_PERSON ==
    { <<"y","o","u">>,
      <<"y","o","u","r">>,
      <<"y","o","u","'","r","e">>,
      <<"y","o","u","v","e">> }

ABSOLUTES ==
    { <<"a","l","w","a","y","s">>,
      <<"n","e","v","e","r">>,
      <<"n","o","t","h","i","n","g">>,
      <<"e","v","e","r","y">> }

DIRECTIVES ==
    { <<"s","t","o","p">>,
      <<"f","i","x">>,
      <<"e","x","p","l","a","i","n">>,
      <<"d","o">>,
      <<"d","o","n","t">>,
      <<"d","o","n","'","t">> }

NEGATIONS ==
    { <<"n","o","t">>,
      <<"d","o","n","t">>,
      <<"d","o","n","'","t">>,
      <<"c","a","n","t">>,
      <<"c","a","n","'","t">>,
      <<"c","a","n","n","o","t">> }

REJECTION_VERBS ==
    { <<"l","i","k","e">>,
      <<"t","o","l","e","r","a","t","e">>,
      <<"s","t","a","n","d">>,
      <<"r","e","s","p","e","c","t">>,
      <<"a","c","c","e","p","t">> }

NEGATIVE_EVALUATIONS ==
    { <<"u","n","a","c","c","e","p","t","a","b","l","e">>,
      <<"n","o","n","s","e","n","s","e">>,
      <<"r","i","d","i","c","u","l","o","u","s">>,
      <<"i","n","a","p","p","r","o","p","r","i","a","t","e">>,
      <<"w","r","o","n","g">>,
      <<"b","a","d">>,
      <<"t","e","r","r","i","b","l","e">>,
      <<"u","s","e","l","e","s","s">> }

PROFANITY ==
    { <<"f","u","c","k">>,
      <<"s","h","i","t">>,
      <<"d","a","m","n">>,
      <<"a","s","s","h","o","l","e">>,
      <<"b","i","t","c","h">> }

-----------------------------------------------------------------------------
(* Optional values and the outcome of a call that may raise.               *)

NoValue == << >>
Some(x) == << x >>
IsSome(o) == Len(o) = 1
Get(o) == o[1]

Returned(x) == [raised |-> "none", value |-> Some(x)]
Raised(e) == [raised |-> e, value |-> NoValue]

-----------------------------------------------------------------------------
(* rules.py: helpers.                                                      *)

RECURSIVE findall(_, _, _, _)
\* re.findall(r"\b\w+\b", s): the maximal runs of \w characters, in order.
findall(s, i, cur, acc) ==
    IF i > Len(s)
    THEN IF Len(cur) = 0 THEN acc ELSE Append(acc, cur)
    ELSE IF isWordChar(s[i])
         THEN findall(s, i + 1, Append(cur, s[i]), acc)
         ELSE findall(s, i + 1, << >>,
                      IF Len(cur) = 0 THEN acc ELSE Append(acc, cur))

tokenize(txt) == findall(lower(txt), 1, << >>, << >>)

count_overlap(tokens, vocab) ==
    Cardinality({ i \in DOMAIN tokens : tokens[i] \in vocab })

has_second_person(tokens) == count_overlap(tokens, SECOND_PERSON) > 0

\* x in tokens
inTokens(x, tokens) == \E i \in DOMAIN tokens : tokens[i] = x

\* v > threshold raises TypeError unless v is a number.
isNum(v) == v.t = "num"

-----------------------------------------------------------------------------
(* rules.py: pattern detectors.  An operand of `and` / `or` is evaluated   *)
(* only when the operands before it do not decide the result, so a         *)
(* malformed sentiment_score raises only where its comparison is reached.  *)

rejection_pattern(tokens) ==
    /\ count_overlap(tokens, REJECTION_VERBS) > 0
    /\ count_overlap(tokens, NEGATIONS) > 0

blame_reaches_score(tokens) ==
    /\ has_second_person(tokens)
    /\ ~(count_overlap(tokens, ABSOLUTES) > 0)

\* Mutant: the sentiment threshold is inclusive.
blame_pattern_inclusive(tokens, sentiment_score) ==
    /\ has_second_person(tokens)
    /\ \/ count_overlap(tokens, ABSOLUTES) > 0
       \/ sentiment_score.n >= 600

blame_pattern(tokens, sentiment_score) ==
    /\ has_second_person(tokens)
    /\ \/ count_overlap(tokens, ABSOLUTES) > 0
       \/ sentiment_score.n > 600

confrontational_reaches_score(tokens) ==
    count_overlap(tokens, DIRECTIVES) > 0

confrontational_pattern(tokens, sentiment_score) ==
    /\ count_overlap(tokens, DIRECTIVES) > 0
    /\ sentiment_score.n > 550

negative_tone_pattern(tokens) ==
    \/ count_overlap(tokens, NEGATIVE_EVALUATIONS) > 0
    \/ /\ inTokens(<<"d","o","n","t">>, tokens)
       /\ inTokens(<<"l","i","k","e">>, tokens)

\* Mutant: the count is compared with >= 0.
norm_violation_always(tokens) == count_overlap(tokens, PROFANITY) >= 0

norm_violation(tokens) == count_overlap(tokens, PROFANITY) > 0

toxic_pattern(toxicity) == toxicity.n > 400

-----------------------------------------------------------------------------
(* rules.py: feature extraction.                                           *)

\* The keys of the dict literal of extract_rule_features, in its order,
\* which is also the order of `weights` in calculate_conflict_score.
FeatureOrder ==
    << "negative_tone", "norm_violation", "negative_interaction",
       "rejection", "blame", "confrontational", "toxic" >>

FeatureKeys == Range(FeatureOrder)

FeatureSets == [FeatureKeys -> BOOLEAN]

\* The dict literal of lines 108-121, once the three fields are read.
feature_dict(tokens, sentiment, sentiment_score, toxicity) ==
    IF \/ blame_reaches_score(tokens) /\ ~isNum(sentiment_score)
       \/ confrontational_reaches_score(tokens) /\ ~isNum(sentiment_score)
       \/ ~isNum(toxicity)
    THEN Raised("TypeError")
    ELSE Returned(
        [k \in FeatureKeys |->
           CASE k = "negative_tone" -> negative_tone_pattern(tokens)
             [] k = "norm_violation" -> norm_violation(tokens)
             [] k = "negative_interaction" ->
                   sentiment = Str("negative") /\ has_second_person(tokens)
             [] k = "rejection" -> rejection_pattern(tokens)
             [] k = "blame" -> blame_pattern(tokens, sentiment_score)
             [] k = "confrontational" ->
                   confrontational_pattern(tokens, sentiment_score)
             [] k = "toxic" -> toxic_pattern(toxicity)])

\* model_output["sentiment"] and the two reads after it raise KeyError on
\* a missing key.
extract_rule_features(txt, mo) ==
    IF ~({"sentiment", "sentiment_score", "toxicity"} \subseteq DOMAIN mo)
    THEN Raised("KeyError")
    ELSE feature_dict(tokenize(txt), mo["sentiment"],
                      mo["sentiment_score"], mo["toxicity"])

-----------------------------------------------------------------------------
(* rules.py: conflict scoring, in thousandths.                             *)

weights ==
    [negative_tone |-> 300, norm_violation |-> 600,
     negative_interaction |-> 200, rejection |-> 350, blame |-> 300,
     confrontational |-> 250, toxic |-> 500]

RECURSIVE weightedSum(_, _)
\* for k, w in weights.items(): if features.get(k): score += w
weightedSum(f, i) ==
    IF i > Len(FeatureOrder)
    THEN 0
    ELSE (IF f[FeatureOrder[i]] THEN weights[FeatureOrder[i]] ELSE 0)
         + weightedSum(f, i + 1)

\* Mutant: the second bonus is assigned (score = 0.15), not added.
synergy_assigned(f) ==
    IF f["blame"] /\ f["confrontational"]
    THEN 150 - weightedSum(f, 1)
    ELSE IF f["negative_tone"] /\ f["rejection"] THEN 150 ELSE 0

synergy(f) ==
    (IF f["negative_tone"] /\ f["rejection"] THEN 150 ELSE 0)
    + (IF f["blame"] /\ f["confrontational"] THEN 150 ELSE 0)

\* Mutant: the sum is returned without the clamp.
calculate_conflict_score_unclamped(f) == weightedSum(f, 1) + synergy(f)

calculate_conflict_score(f) == Min(weightedSum(f, 1) + synergy(f), 1000)

\* Mutant: the boundaries belong to the tier below.
risk_level_exclusive(score) ==
    IF score <= 300 THEN "LOW"
    ELSE IF score <= 600 THEN "MEDIUM"
    ELSE "HIGH"

\* The if / elif / else of apply_rules.
risk_level(score) ==
    IF score < 300 THEN "LOW"
    ELSE IF score < 600 THEN "MEDIUM"
    ELSE "HIGH"

recommendation(score) ==
    IF score < 300 THEN "No action needed"
    ELSE IF score < 600 THEN "Suggest cooling-off or rephrasing"
    ELSE "Intervene or alert moderator"

\* [k for k, v in features.items() if v]
triggered(f) == SelectSeq(FeatureOrder, LAMBDA k : f[k])

\* apply_rules from the extracted features on; round(score, 3) keeps the
\* thousandths.
rules_dict(f, score) ==
    [conflict_score |-> score,
     risk_level |-> risk_level(score),
     recommendation |-> recommendation(score),
     triggered_rules |-> triggered(f)]

rules_result(f) == rules_dict(f, calculate_conflict_score(f))

\* An exception of the extraction leaves apply_rules as it is.
rules_outcome(e) ==
    IF e.raised # "none"
    THEN Raised(e.raised)
    ELSE Returned(rules_result(Get(e.value)))

apply_rules(txt, mo) == rules_outcome(extract_rule_features(txt, mo))

-----------------------------------------------------------------------------
(* model.py.                                                               *)

neg_words ==
    { <<"h","a","t","e">>,
      <<"s","t","u","p","i","d">>,
      <<"i","d","i","o","t">>,
      <<"u","s","e","l","e","s","s">>,
      <<"w","o","r","s","t">>,
      <<"f","a","u","l","t">>,
      <<"b","l","a","m","e">>,
      <<"n","e","v","e","r">>,
      <<"a","l","w","a","y","s">>,
      <<"s","t","o","p">>,
      <<"d","o","n","t">>,
      <<"c","a","n","'","t">>,
      <<"c","a","n","t">>,
      <<"t","o","l","e","r","a","t","e">>,
      <<"l","i","k","e">> }

tox_words ==
    { <<"k","i","l","l">>,
      <<"d","i","e">>,
      <<"a","t","t","a","c","k">>,
      <<"t","e","r","r","o","r">> }

\* The labels of cardiffnlp/twitter-roberta-base-sentiment, lowered.
SENTIMENT_MAP(label) ==
    CASE label = <<"l","a","b","e","l","_","0">> -> "negative"
      [] label = <<"l","a","b","e","l","_","1">> -> "neutral"
      [] label = <<"l","a","b","e","l","_","2">> -> "positive"

\* Two of the labels of unitary/toxic-bert.
ToxicityLabels == { <<"t","o","x","i","c">>, <<"o","b","s","c","e","n","e">> }

\* A top sentiment label with its score, at the three places model.py
\* rounds to: a confident negative, a neutral of score 0, a confident
\* positive.
SentimentOutputs ==
    { << <<"L","A","B","E","L","_","0">>, 900 >>,
      << <<"L","A","B","E","L","_","1">>, 0 >>,
      << <<"L","A","B","E","L","_","2">>, 900 >> }

\* What the two pipelines do in one call: raise, or return a top label and
\* score each.
Inferences ==
    { [raises |-> TRUE, sent_label |-> << >>, sent_score |-> 0,
       tox_label |-> << >>, tox_score |-> 0] }
    \cup
    { [raises |-> FALSE, sent_label |-> so[1], sent_score |-> so[2],
       tox_label |-> tl, tox_score |-> 900] :
          so \in SentimentOutputs, tl \in ToxicityLabels }

\* sum(1 for w in words if w in text_lower)
substringCount(words, s) == Cardinality({ w \in words : contains(s, w) })

_heuristic_analyze(txt) ==
    LET text_lower == lower(txt)
        neg_count == substringCount(neg_words, text_lower)
        tox_count == substringCount(tox_words, text_lower)
        sentiment == IF neg_count > 0 THEN "negative" ELSE "neutral"
        sentiment_score == Min(900, 400 + neg_count * 250)
    IN  [sentiment |-> Str(sentiment),
         sentiment_score |-> Num(sentiment_score),
         toxicity |-> Num(Min(1000, tox_count * 300)),
         subjectivity |-> Num(Min(1000, sentiment_score + 200))]

\* The `if MODEL_AVAILABLE: try:` branch of analyze_message.
pipelines(txt, inf) ==
    IF inf.raises
    THEN _heuristic_analyze(txt)
    ELSE LET sentiment == SENTIMENT_MAP(lower(inf.sent_label))
             sentiment_score == inf.sent_score
             toxicity == IF lower(inf.tox_label) = <<"t","o","x","i","c">>
                         THEN inf.tox_score
                         ELSE 0
         IN  [sentiment |-> Str(sentiment),
              sentiment_score |-> Num(sentiment_score),
              toxicity |-> Num(toxicity),
              subjectivity |-> Num(Min(1000, sentiment_score + toxicity))]

\* Whether analyze_message reaches the pipelines at all.
callsPipelines(txt, available) ==
    ~(falsy(txt) \/ stripsToEmpty(txt)) /\ available

analyze_message(txt, available, inf) ==
    IF falsy(txt) \/ stripsToEmpty(txt)
    THEN Returned([sentiment |-> Str("neutral"), sentiment_score |-> Num(0),
                   toxicity |-> Num(0), subjectivity |-> Num(0)])
    ELSE IF available
         THEN Returned(pipelines(txt, inf))
         ELSE Returned(_heuristic_analyze(txt))

-----------------------------------------------------------------------------
(* app.py: analyze_text.                                                   *)

\* The dict analyze_text substitutes when model_analyze raises.
DefaultSignal ==
    [sentiment |-> Str("neutral"), sentiment_score |-> Num(0),
     toxicity |-> Num(0)]

severity_map(risk) ==
    CASE risk = "LOW" -> "low"
      [] risk = "MEDIUM" -> "medium"
      [] risk = "HIGH" -> "high"
      [] OTHER -> "low"

\* int(round(x * 100)) of a score x in thousandths; round() takes a tie to
\* the even neighbour.
toPercent(x) ==
    LET q == x \div 10
        r == x % 10
    IN  IF r < 5 THEN q
        ELSE IF r > 5 THEN q + 1
        ELSE IF q % 2 = 0 THEN q ELSE q + 1

\* f"Rule triggered: {r.replace('_', ' ').title()}"
ruleFlag(r) ==
    CASE r = "negative_tone" -> "Rule triggered: Negative Tone"
      [] r = "norm_violation" -> "Rule triggered: Norm Violation"
      [] r = "negative_interaction" -> "Rule triggered: Negative Interaction"
      [] r = "rejection" -> "Rule triggered: Rejection"
      [] r = "blame" -> "Rule triggered: Blame"
      [] r = "confrontational" -> "Rule triggered: Confrontational"
      [] r = "toxic" -> "Rule triggered: Toxic"

\* The flag texts, without their leading emoji.
CapsFlag == "Excessive caps detected (aggressive tone)"
ExclamationFlag == "Multiple exclamation marks (strong emotion)"
NoIndicatorsFlag == "No negative indicators"

\* Mutant: 30% uppercase already counts as shouting.
capsFires_inclusive(txt) == ~falsy(txt) /\ 10 * countUpper(txt) >= 3 * Len(txt)

\* text and caps_count > len(text) * 0.3
capsFires(txt) == ~falsy(txt) /\ 10 * countUpper(txt) > 3 * Len(txt)

\* exclamation_count >= 3
exclamationFires(txt) == countChar(txt, "!") >= 3

\* Mutant: the adjustment is added without the cap.
bump_uncapped(score, n) == score + n

\* conflict_score = min(100, conflict_score + n)
bump(score, n) == Min(100, score + n)

\* Mutant: the severity is taken from the score after the heuristics.
result_dict_late_severity(txt, mo, model_error, rules_output) ==
    LET score0 == toPercent(rules_output.conflict_score)
        flags0 == [i \in DOMAIN rules_output.triggered_rules |->
                     ruleFlag(rules_output.triggered_rules[i])]
        caps == capsFires(txt)
        excl == exclamationFires(txt)
        score1 == IF caps THEN bump(score0, 10) ELSE score0
        flags1 == IF caps THEN Append(flags0, CapsFlag) ELSE flags0
        score2 == IF excl THEN bump(score1, 5) ELSE score1
        flags2 == IF excl THEN Append(flags1, ExclamationFlag) ELSE flags1
    IN  [conflict_score |-> score2,
         severity |-> severity_map(risk_level(10 * score2)),
         flags |-> IF Len(flags2) > 0 THEN flags2 ELSE << NoIndicatorsFlag >>,
         suggestion |-> rules_output.recommendation,
         word_count |-> wordCount(txt),
         triggered_rules |-> rules_output.triggered_rules,
         model |-> mo,
         model_error |-> model_error]

\* Lines 87-121: the result dict, from the rules' output.
result_dict(txt, mo, model_error, rules_output) ==
    LET score0 == toPercent(rules_output.conflict_score)
        flags0 == [i \in DOMAIN rules_output.triggered_rules |->
                     ruleFlag(rules_output.triggered_rules[i])]
        caps == capsFires(txt)
        excl == exclamationFires(txt)
        score1 == IF caps THEN bump(score0, 10) ELSE score0
        flags1 == IF caps THEN Append(flags0, CapsFlag) ELSE flags0
        score2 == IF excl THEN bump(score1, 5) ELSE score1
        flags2 == IF excl THEN Append(flags1, ExclamationFlag) ELSE flags1
    IN  [conflict_score |-> score2,
         severity |-> severity_map(rules_output.risk_level),
         flags |-> IF Len(flags2) > 0 THEN flags2 ELSE << NoIndicatorsFlag >>,
         suggestion |-> rules_output.recommendation,
         word_count |-> wordCount(txt),
         triggered_rules |-> rules_output.triggered_rules,
         model |-> mo,
         model_error |-> model_error]

\* An exception of apply_rules is not caught.
after_rules(txt, mo, model_error, ro) ==
    IF ro.raised # "none"
    THEN Raised(ro.raised)
    ELSE Returned(result_dict(txt, mo, model_error, Get(ro.value)))

\* Lines 85-121: everything after the model call.
assemble(txt, mo, model_error) ==
    after_rules(txt, mo, model_error, apply_rules(txt, mo))

\* The try / except around model_analyze.
after_model(txt, m) ==
    IF m.raised = "none"
    THEN assemble(txt, Get(m.value), NoValue)
    ELSE assemble(txt, DefaultSignal, Some(m.raised))

analyze_text(txt, available, inf) ==
    after_model(txt, analyze_message(txt, available, inf))

-----------------------------------------------------------------------------
(* Inputs of the direct calls.                                             *)

\* Words the texts are built from: one or more of every vocabulary, in
\* both cases, a word outside every vocabulary, and a contraction.
Words ==
    { <<"y","o","u">>,
      <<"Y","O","U">>,
      <<"n","e","v","e","r">>,
      <<"s","t","o","p">>,
      <<"d","o","n","t">>,
      <<"d","o","n","'","t">>,
      <<"n","o","t">>,
      <<"l","i","k","e">>,
      <<"b","a","d">>,
      <<"D","A","M","N">>,
      <<"h","i">> }

WordSeqs == UNION { [1..n -> Words] : n \in 0..MaxWords }

RECURSIVE join(_)
\* " ".join(ws)
join(ws) ==
    IF Len(ws) = 0 THEN << >>
    ELSE IF Len(ws) = 1 THEN ws[1]
    ELSE ws[1] \o << " " >> \o join(Tail(ws))

bangs(k) == [i \in 1..k |-> "!"]

\* Texts of at most MaxWords words, without and with trailing '!'.
TokenTexts == { join(ws) : ws \in WordSeqs }
Texts == { t \o bangs(k) : t \in TokenTexts, k \in 0..MaxBang }

\* A model_output dict as rules.py may be handed one: a field it reads is
\* absent, and a field it compares with a threshold is None or a value at
\* the threshold or just above it.
Absent == [t |-> "absent", n |-> 0, s |-> ""]

SentimentValues == { Absent, Str("negative"), Str("neutral") }
ScoreValues == { Absent, NoneV, Num(550), Num(551), Num(600), Num(601) }
ToxicityValues == { Absent, NoneV, Num(400), Num(401) }

\* The dict with the fields that are not Absent.
dictOf(se, sc, to) ==
    LET all == [sentiment |-> se, sentiment_score |-> sc, toxicity |-> to]
        keys == { k \in DOMAIN all : all[k] # Absent }
    IN  [k \in keys |-> all[k]]

ModelOutputs ==
    { dictOf(se, sc, to) :
        se \in SentimentValues, sc \in ScoreValues, to \in ToxicityValues }

NoFeatures == [k \in FeatureKeys |-> FALSE]

-----------------------------------------------------------------------------
(* app.py: module data and session state.                                  *)

Msg(sender, txt, timestamp, severity) ==
    [sender |-> sender, text |-> txt, timestamp |-> timestamp,
     severity |-> severity]

Demo_Alice ==
    << Msg("Alice",
           <<"T","h","i","s"," ","p","r","o","j","e","c","t"," ","i","s"," ","g","o","i","n","g"," ","n","o","w","h","e","r","e","!">>,
           "10:23", "high"),
       Msg("Bob",
           <<"I"," ","d","i","s","a","g","r","e","e","."," ","W","e","'","r","e"," ","m","a","k","i","n","g"," ","p","r","o","g","r","e","s","s",".">>,
           "10:24", "medium"),
       Msg("Alice",
           <<"Y","o","u","r"," ","i","d","e","a"," ","i","s"," ","c","o","m","p","l","e","t","e","l","y"," ","u","s","e","l","e","s","s",".">>,
           "10:25", "high"),
       Msg("Manager",
           <<"L","e","t","'","s"," ","d","i","s","c","u","s","s"," ","t","h","i","s"," ","c","o","n","s","t","r","u","c","t","i","v","e","l","y",".">>,
           "10:26", "medium") >>

Demo_Bob ==
    << Msg("Bob",
           <<"Y","o","u"," ","n","e","v","e","r"," ","l","i","s","t","e","n"," ","t","o"," ","m","y"," ","i","d","e","a","s","!">>,
           "14:05", "high"),
       Msg("Manager",
           <<"L","e","t","'","s"," ","t","a","k","e"," ","a"," ","s","t","e","p"," ","b","a","c","k"," ","a","n","d"," ","d","i","s","c","u","s","s",".">>,
           "14:06", "low"),
       Msg("Bob",
           <<"I"," ","a","p","p","r","e","c","i","a","t","e"," ","y","o","u","r"," ","f","e","e","d","b","a","c","k"," ","o","n"," ","t","h","i","s",".">>,
           "14:07", "low"),
       Msg("Alice",
           <<"G","o","o","d"," ","p","o","i","n","t",","," ","l","e","t","'","s"," ","w","o","r","k"," ","t","o","g","e","t","h","e","r",".">>,
           "14:08", "low") >>

Demo_Manager ==
    << Msg("Manager",
           <<"B","o","t","h"," ","o","f"," ","y","o","u"," ","n","e","e","d"," ","t","o"," ","c","o","m","m","u","n","i","c","a","t","e"," ","b","e","t","t","e","r",".">>,
           "09:15", "medium"),
       Msg("Alice",
           <<"U","n","d","e","r","s","t","o","o","d","."," ","I","'","l","l"," ","m","a","k","e"," ","m","o","r","e"," ","e","f","f","o","r","t",".">>,
           "09:16", "low"),
       Msg("Bob",
           <<"T","h","a","n","k","s"," ","f","o","r"," ","t","h","e"," ","g","u","i","d","a","n","c","e",".">>,
           "09:17", "low"),
       Msg("Manager",
           <<"G","r","e","a","t","!"," ","L","e","t","'","s"," ","c","o","n","t","i","n","u","e"," ","w","o","r","k","i","n","g"," ","a","s"," ","a"," ","t","e","a","m",".">>,
           "09:18", "low") >>

Users == << "Alice", "Bob", "Manager" >>

DEMO_MESSAGES ==
    [u \in Range(Users) |->
        CASE u = "Alice" -> Demo_Alice
          [] u = "Bob" -> Demo_Bob
          [] u = "Manager" -> Demo_Manager]

\* st.session_state.current_user = None
NoUser == "None"

\* The analysis dict of a call that returned.  model_analyze never raises
\* (analyze_message catches what the pipelines raise) and the dicts it
\* returns carry every field rules.py reads, so in the script analyze_text
\* always returns.
dictOfCall(txt, inf) == Get(analyze_text(txt, MODEL_AVAILABLE, inf).value)

\* datetime.now().strftime("%H:%M"): the clock is not modelled.
Now == "now"

\* Session state a script run reads and writes, with the texts analyze_text
\* has been called with.
Session ==
    [messages |-> messages, current_user |-> current_user,
     last_analysis |-> last_analysis, analyzed |-> analyzed]

\* Lines 201-212: the message is analysed and appended, then st.rerun().
send(S, usr, msg, a) ==
    [session |->
         [S EXCEPT !.last_analysis = Some(a),
                   !.analyzed = @ \cup {msg},
                   !.messages[usr] = Append(@, Msg(usr, msg, Now, a.severity))],
     rerun |-> TRUE]

\* Lines 154-214, the chat column.  `rerun` tells that st.rerun() was
\* called, which ends the run there.
chat(S, usr, msg, send_button, inf) ==
    IF usr # ""
    THEN IF send_button /\ ~falsy(msg)
         THEN send([S EXCEPT !.current_user = usr], usr, msg,
                   dictOfCall(msg, inf))
         ELSE [session |-> [S EXCEPT !.current_user = usr], rerun |-> FALSE]
    ELSE [session |-> S, rerun |-> FALSE]

\* msgs[-1][1]
last_text(msgs) == msgs[Len(msgs)].text

\* Lines 222-230, the head of the analysis panel.
panel(S, inf) ==
    IF S.current_user # NoUser /\ IsSome(S.last_analysis)
    THEN S
    ELSE IF S.current_user # NoUser
         THEN [S EXCEPT
                 !.last_analysis =
                     Some(dictOfCall(last_text(S.messages[S.current_user]), inf)),
                 !.analyzed = @ \cup {last_text(S.messages[S.current_user])}]
         ELSE S

\* After the chat column: st.rerun() starts the script again, with the
\* button reading False; a run that is not cut short goes on to the panel.
after_chat(c, usr, msg, inf1, inf2) ==
    panel(IF c.rerun
          THEN chat(c.session, usr, msg, FALSE, inf1).session
          ELSE c.session,
          inf2)

\* One pass of the script over the widget values, with the pass that
\* st.rerun() starts.
script(S, usr, msg, send_button, inf1, inf2) ==
    after_chat(chat(S, usr, msg, send_button, inf1), usr, msg, inf1, inf2)

\* Messages the user types: empty, blank, calm, heated.
TypedTexts ==
    { << >>, << " " >>, <<"h","i">>,
      <<"Y","O","U"," ","n","e","v","e","r"," ","s","t","o","p","!","!","!">> }

sentCount ==
    Len(messages["Alice"]) + Len(messages["Bob"]) + Len(messages["Manager"])
    - Len(Demo_Alice) - Len(Demo_Bob) - Len(Demo_Manager)

-----------------------------------------------------------------------------
(* Initial values of the parts a specification does not exercise.          *)

IdleScorer ==
    /\ features = NoFeatures
    /\ rules_out = NoValue
    /\ prev_out = NoValue

IdleRules ==
    /\ model_output = DefaultSignal
    /\ extracted = NoValue
    /\ applied = NoValue

IdleAnalyze ==
    /\ inference = "idle"
    /\ analysis = NoValue

\* Lines 59-69 and the widgets' defaults.
InitSession ==
    /\ messages = DEMO_MESSAGES
    /\ current_user = NoUser
    /\ last_analysis = NoValue
    /\ user = ""
    /\ new_message = << >>
    /\ analyzed = {}

-----------------------------------------------------------------------------
(* The scorer over every feature set.                                      *)

InitScorer ==
    /\ features \in FeatureSets
    /\ rules_out = NoValue
    /\ prev_out = NoValue
    /\ text = << >>
    /\ MODEL_AVAILABLE = FALSE
    /\ IdleRules /\ IdleAnalyze /\ InitSession

\* Score the feature set as apply_rules does.
Score ==
    /\ rules_out = NoValue
    /\ rules_out' = Some(rules_result(features))
    /\ UNCHANGED << features, prev_out, text, MODEL_AVAILABLE >>
    /\ UNCHANGED << rulesVars, analyzeVars, uiVars >>

\* One more detector fires: score again, keeping the result before.
SetFeature(k) ==
    /\ IsSome(rules_out)
    /\ ~features[k]
    /\ features' = [features EXCEPT ![k] = TRUE]
    /\ prev_out' = rules_out
    /\ rules_out' = Some(rules_result(features'))
    /\ UNCHANGED << text, MODEL_AVAILABLE >>
    /\ UNCHANGED << rulesVars, analyzeVars, uiVars >>

NextScorer ==
    \/ Score
    \/ \E k \in FeatureKeys : SetFeature(k)

SpecScorer == InitScorer /\ [][NextScorer]_vars

-----------------------------------------------------------------------------
(* rules.py called directly, on any model_output dict.                     *)

InitRules ==
    /\ text \in TokenTexts
    /\ model_output \in ModelOutputs
    /\ extracted = NoValue
    /\ applied = NoValue
    /\ MODEL_AVAILABLE = FALSE
    /\ IdleScorer /\ IdleAnalyze /\ InitSession

ExtractRuleFeatures ==
    /\ extracted = NoValue
    /\ extracted' = Some(extract_rule_features(text, model_output))
    /\ UNCHANGED << text, model_output, applied, MODEL_AVAILABLE >>
    /\ UNCHANGED << scorerVars, analyzeVars, uiVars >>

\* apply_rules, with the outcome of the extraction it starts with.
ApplyRules ==
    /\ applied = NoValue
    /\ extracted' = Some(extract_rule_features(text, model_output))
    /\ applied' = Some(apply_rules(text, model_output))
    /\ UNCHANGED << text, model_output, MODEL_AVAILABLE >>
    /\ UNCHANGED << scorerVars, analyzeVars, uiVars >>

NextRules == ExtractRuleFeatures \/ ApplyRules

SpecRules == InitRules /\ [][NextRules]_vars

-----------------------------------------------------------------------------
(* analyze_text called directly.                                           *)

InitAnalyze ==
    /\ text \in Texts
    /\ MODEL_AVAILABLE \in BOOLEAN
    /\ IdleScorer /\ IdleRules /\ IdleAnalyze /\ InitSession

AnalyzeText ==
    \E inf \in Inferences :
        /\ analysis = NoValue
        /\ inference' =
              IF callsPipelines(text, MODEL_AVAILABLE)
              THEN IF inf.raises THEN "raised" ELSE "returned"
              ELSE "not_called"
        /\ analysis' = Some(analyze_text(text, MODEL_AVAILABLE, inf))
        /\ UNCHANGED << text, MODEL_AVAILABLE >>
        /\ UNCHANGED << scorerVars, rulesVars, uiVars >>

NextAnalyze == AnalyzeText

SpecAnalyze == InitAnalyze /\ [][NextAnalyze]_vars

-----------------------------------------------------------------------------
(* The Streamlit script: every widget event runs it from the top.          *)

Init ==
    /\ InitSession
    /\ MODEL_AVAILABLE \in BOOLEAN
    /\ text = << >>
    /\ IdleScorer /\ IdleRules /\ IdleAnalyze

\* The session state a script run leaves.
Commit(S) ==
    /\ messages' = S.messages
    /\ current_user' = S.current_user
    /\ last_analysis' = S.last_analysis
    /\ analyzed' = S.analyzed

\* What the pipelines do during a script run: raise, or call the message
\* negative and toxic.
ScriptInferences ==
    { inf \in Inferences :
        \/ inf.raises
        \/ /\ lower(inf.sent_label) = <<"l","a","b","e","l","_","0">>
           /\ inf.sent_score = 900
           /\ inf.tox_label = <<"t","o","x","i","c">> }

\* The script runs with the widget values usr and msg.
Run(usr, msg, send_button) ==
    \E inf1, inf2 \in ScriptInferences :
        /\ Commit(script(Session, usr, msg, send_button, inf1, inf2))
        /\ user' = usr
        /\ new_message' = msg
        /\ UNCHANGED << text, MODEL_AVAILABLE >>
        /\ UNCHANGED << scorerVars, rulesVars, analyzeVars >>

\* The selectbox offers "" and the three personas.
SelectUser(u) ==
    /\ u # user
    /\ Run(u, new_message, FALSE)

\* The text_input is rendered once a user is selected.
TypeMessage(m) ==
    /\ user # ""
    /\ m # new_message
    /\ Run(user, m, FALSE)

\* So is the Send button.
PressSend ==
    /\ user # ""
    /\ sentCount < MaxSent
    /\ Run(user, new_message, TRUE)

Rerun == Run(user, new_message, FALSE)

Next ==
    \/ \E u \in {""} \cup Range(Users) : SelectUser(u)
    \/ \E m \in TypedTexts : TypeMessage(m)
    \/ PressSend
    \/ Rerun

Spec == Init /\ [][Next]_vars

-----------------------------------------------------------------------------
(* Properties of the scorer (SpecScorer).                                  *)

\* The decimal sum the scorer is specified to return, before the clamp.
specifiedSum(f) ==
    (IF f["negative_tone"] THEN 300 ELSE 0)
    + (IF f["norm_violation"] THEN 600 ELSE 0)
    + (IF f["negative_interaction"] THEN 200 ELSE 0)
    + (IF f["rejection"] THEN 350 ELSE 0)
    + (IF f["blame"] THEN 300 ELSE 0)
    + (IF f["confrontational"] THEN 250 ELSE 0)
    + (IF f["toxic"] THEN 500 ELSE 0)
    + (IF f["negative_tone"] /\ f["rejection"] THEN 150 ELSE 0)
    + (IF f["blame"] /\ f["confrontational"] THEN 150 ELSE 0)

\* C2: for every feature set the score is min(1.0, S), S the sum of the
\* weights of the true features plus 0.15 for negative_tone with rejection
\* and 0.15 for blame with confrontational, and lies in [0, 1].
C2_ScoreIsClampedSum ==
    IsSome(rules_out) =>
        /\ Get(rules_out).conflict_score = Min(1000, specifiedSum(features))
        /\ Get(rules_out).conflict_score \in 0..1000

\* A scored set in which a synergy bonus shows unclamped: negative_tone and
\* rejection alone, 0.30 + 0.35 + 0.15.
C2_Witness ==
    /\ IsSome(rules_out)
    /\ features = [NoFeatures EXCEPT !["negative_tone"] = TRUE,
                                     !["rejection"] = TRUE]
    /\ Get(rules_out).conflict_score = 800

tierRank(risk) ==
    CASE risk = "LOW" -> 0
      [] risk = "MEDIUM" -> 1
      [] risk = "HIGH" -> 2

\* C3: setting one more feature never lowers the score, and never moves the
\* risk tier down.
C3_Monotone ==
    IsSome(prev_out) =>
        /\ Get(rules_out).conflict_score >= Get(prev_out).conflict_score
        /\ tierRank(Get(rules_out).risk_level)
              >= tierRank(Get(prev_out).risk_level)

\* A feature was set and the score rose across two tiers, LOW to HIGH.
C3_Witness ==
    /\ IsSome(prev_out)
    /\ Get(prev_out).risk_level = "LOW"
    /\ Get(rules_out).risk_level = "HIGH"
    /\ Get(rules_out).conflict_score > Get(prev_out).conflict_score

\* C4: score < 0.30 is LOW, 0.30 <= score < 0.60 is MEDIUM, score >= 0.60
\* is HIGH, each with its recommendation; exactly 0.30 is MEDIUM and
\* exactly 0.60 is HIGH.
C4_Tiers ==
    IsSome(rules_out) =>
        LET r == Get(rules_out)
            s == Min(1000, specifiedSum(features))
        IN  /\ s < 300 =>
                 /\ r.risk_level = "LOW"
                 /\ r.recommendation = "No action needed"
            /\ (300 <= s /\ s < 600) =>
                 /\ r.risk_level = "MEDIUM"
                 /\ r.recommendation = "Suggest cooling-off or rephrasing"
            /\ s >= 600 =>
                 /\ r.risk_level = "HIGH"
                 /\ r.recommendation = "Intervene or alert moderator"

\* A feature set scoring exactly 0.30 (blame alone) classified MEDIUM.
C4_Witness ==
    /\ IsSome(rules_out)
    /\ Get(rules_out).conflict_score = 300
    /\ Get(rules_out).risk_level = "MEDIUM"
    /\ features["blame"]

-----------------------------------------------------------------------------
(* Properties of analyze_text (SpecAnalyze).                               *)

\* The dict of the call under study, once it has returned.
returned == IsSome(analysis) /\ Get(analysis).raised = "none"
result == Get(Get(analysis).value)

\* C1: for every text and every model signal, the heuristic fallback
\* included, conflict_score is an integer in 0..100, the caps and
\* exclamation adjustments applied.
C1_ScoreInRange ==
    IsSome(analysis) =>
        /\ Get(analysis).raised = "none"
        /\ result.conflict_score \in 0..100

\* Both adjustments applied to a rule score that was already 100.
C1_Witness ==
    /\ returned
    /\ capsFires(text)
    /\ exclamationFires(text)
    /\ Get(apply_rules(text, result.model).value).conflict_score = 1000
    /\ result.conflict_score = 100

\* The three fields of the substituted default signal.
isDefaultSignal(mo) ==
    /\ mo["sentiment"] = Str("neutral")
    /\ mo["sentiment_score"] = Num(0)
    /\ mo["toxicity"] = Num(0)

\* C5: when the model capability fails on a text that is not blank (the
\* pipelines raise, or did not load) the result carries the default signal
\* and a non-empty model_error; when it succeeds model_error is None.
C5_FallbackOnFailure ==
    (returned /\ ~stripsToEmpty(text)) =>
        /\ (inference = "raised" \/ ~MODEL_AVAILABLE) =>
              /\ isDefaultSignal(result.model)
              /\ IsSome(result.model_error)
        /\ inference = "returned" => result.model_error = NoValue

\* No token of the text is in any of the seven vocabularies.
noVocabulary(txt) ==
    LET toks == tokenize(txt) IN
    \A i \in DOMAIN toks :
        toks[i] \notin
            (SECOND_PERSON \cup ABSOLUTES \cup DIRECTIVES \cup NEGATIONS
             \cup REJECTION_VERBS \cup NEGATIVE_EVALUATIONS \cup PROFANITY)

\* uppercase characters are more than 30% of a non-empty text
shouting(txt) ==
    /\ Len(txt) > 0
    /\ 10 * Cardinality({ i \in DOMAIN txt : txt[i] \in Range(UPPER) })
          > 3 * Len(txt)

\* three or more '!'
emphatic(txt) == Cardinality({ i \in DOMAIN txt : txt[i] = "!" }) >= 3

ruleBase(txt, mo) ==
    (Get(apply_rules(txt, mo).value).conflict_score + 5) \div 10

ruleFlags(txt, mo) ==
    LET tr == Get(apply_rules(txt, mo).value).triggered_rules IN
    [i \in DOMAIN tr |-> ruleFlag(tr[i])]

\* C10: conflict_score = min(100, min(100, base + 10c) + 5e), c = 1 iff the
\* text is non-empty with more than 30% uppercase characters, e = 1 iff it
\* has 3 or more '!'; the caps flag precedes the exclamation flag and both
\* follow the rule flags; both firing on a base of at most 85 add 15.
C10_Adjustments ==
    returned =>
        LET base == ruleBase(text, result.model)
            c == IF shouting(text) THEN 1 ELSE 0
            e == IF emphatic(text) THEN 1 ELSE 0
            flags == ruleFlags(text, result.model)
                     \o (IF c = 1 THEN << CapsFlag >> ELSE << >>)
                     \o (IF e = 1 THEN << ExclamationFlag >> ELSE << >>)
        IN  /\ result.conflict_score = Min(100, Min(100, base + 10 * c) + 5 * e)
            /\ result.flags =
                  IF Len(flags) > 0 THEN flags ELSE << NoIndicatorsFlag >>
            /\ (c = 1 /\ e = 1 /\ base <= 85) =>
                  result.conflict_score = base + 15

\* Both heuristics fired on rules that fired too, on a base of at most 85.
C10_Witness ==
    /\ returned
    /\ shouting(text) /\ emphatic(text)
    /\ ruleBase(text, result.model) \in 1..85
    /\ result.conflict_score = ruleBase(text, result.model) + 15
    /\ Len(result.flags) >= 3

\* The rule score of the text under the signal the result carries, in
\* thousandths, before any heuristic.
ruleScore(txt, mo) == Get(apply_rules(txt, mo).value).conflict_score

\* C11: severity and suggestion are those of the rule score alone, whether
\* or not the caps and exclamation heuristics fire; the heuristics change
\* only conflict_score (by 0, 5, 10 or 15, up to the cap of 100) and the
\* flags, so a raised conflict_score can sit beside the severity of the
\* unraised score.
C11_SeverityFromRuleScore ==
    returned =>
        LET s == ruleScore(text, result.model)
            base == (s + 5) \div 10
        IN  /\ s < 300 =>
                 /\ result.severity = "low"
                 /\ result.suggestion = "No action needed"
            /\ (300 <= s /\ s < 600) =>
                 /\ result.severity = "medium"
                 /\ result.suggestion = "Suggest cooling-off or rephrasing"
            /\ s >= 600 =>
                 /\ result.severity = "high"
                 /\ result.suggestion = "Intervene or alert moderator"
            /\ result.conflict_score - base \in {0, 5, 10, 15}
            /\ result.conflict_score - base <= 15
            /\ (~shouting(text) /\ ~emphatic(text)) =>
                  result.conflict_score = base

\* Both heuristics fired and raised a rule score below 0.60 to a
\* conflict_score of 60 or more, and the severity is still medium.
C11_Witness ==
    /\ returned
    /\ shouting(text) /\ emphatic(text)
    /\ ruleScore(text, result.model) \in 300..599
    /\ result.conflict_score
          = (ruleScore(text, result.model) + 5) \div 10 + 15
    /\ result.conflict_score >= 60
    /\ result.severity = "medium"
    /\ result.suggestion = "Suggest cooling-off or rephrasing"

-----------------------------------------------------------------------------
(* Properties of rules.py called directly (SpecRules).                     *)

\* C6: feature extraction never raises; whatever fields of the model
\* output are absent or malformed, extract_rule_features returns a complete
\* FeatureSet, and apply_rules a result.
C6_ExtractionNeverRaises ==
    /\ IsSome(extracted) =>
          /\ Get(extracted).raised = "none"
          /\ DOMAIN Get(Get(extracted).value) = FeatureKeys
    /\ IsSome(applied) => Get(applied).raised = "none"

\* Some token of the text is in the vocabulary.
present(vocab) ==
    LET toks == tokenize(text) IN \E i \in DOMAIN toks : toks[i] \in vocab

\* The model output is a well-formed ModelSignal.
wellFormed ==
    /\ {"sentiment", "sentiment_score", "toxicity"} \subseteq DOMAIN model_output
    /\ model_output["sentiment"].t = "str"
    /\ model_output["sentiment_score"].t = "num"
    /\ model_output["toxicity"].t = "num"

\* The detectors as the specification words them.
specifiedFeatures ==
    [negative_tone |->
        \/ present(NEGATIVE_EVALUATIONS)
        \/ present({<<"d","o","n","t">>}) /\ present({<<"l","i","k","e">>}),
     norm_violation |-> present(PROFANITY),
     negative_interaction |->
        model_output["sentiment"].s = "negative" /\ present(SECOND_PERSON),
     rejection |-> present(REJECTION_VERBS) /\ present(NEGATIONS),
     blame |->
        /\ present(SECOND_PERSON)
        /\ (present(ABSOLUTES) \/ model_output["sentiment_score"].n > 600),
     confrontational |->
        present(DIRECTIVES) /\ model_output["sentiment_score"].n > 550,
     toxic |-> model_output["toxicity"].n > 400]

\* s lists members of FeatureOrder in the order of FeatureOrder, once each.
inFeatureOrder(s) ==
    \A i, j \in DOMAIN s :
        i < j =>
            \E a, b \in DOMAIN FeatureOrder :
                a < b /\ FeatureOrder[a] = s[i] /\ FeatureOrder[b] = s[j]

\* C9: for every token sequence and ModelSignal the extraction returns
\* exactly the seven keys, in the fixed order, each with the value its
\* detector specifies (thresholds strict), and triggered_rules lists exactly
\* the true features in that order.
C9_Detectors ==
    wellFormed =>
        /\ IsSome(extracted) =>
              /\ Get(extracted).raised = "none"
              /\ DOMAIN Get(Get(extracted).value) = FeatureKeys
              /\ LET sf == specifiedFeatures IN
                 /\ DOMAIN sf = FeatureKeys
                 /\ \A k \in FeatureKeys : Get(Get(extracted).value)[k] = sf[k]
        /\ IsSome(applied) =>
              /\ Get(applied).raised = "none"
              /\ LET tr == Get(Get(applied).value).triggered_rules
                     sf == specifiedFeatures
                 IN  /\ Range(tr) = { k \in FeatureKeys : sf[k] }
                     /\ inFeatureOrder(tr)

\* The three thresholds met exactly, with the tokens that make them count:
\* a second-person token without an absolute and sentiment_score 0.6 (no
\* blame), toxicity 0.4 (not toxic), and a directive (confrontational, as
\* 0.6 > 0.55).
C9_Witness ==
    /\ IsSome(applied)
    /\ wellFormed
    /\ model_output["sentiment_score"] = Num(600)
    /\ model_output["toxicity"] = Num(400)
    /\ present(SECOND_PERSON) /\ ~present(ABSOLUTES) /\ present(DIRECTIVES)
    /\ Get(Get(applied).value).triggered_rules = << "confrontational" >>

-----------------------------------------------------------------------------
(* Properties of the Streamlit script (Spec).                              *)

\* C7: no text that is empty or only whitespace is passed to analyze_text,
\* and none is appended to a conversation.
C7_NoBlankText ==
    /\ \A t \in analyzed : ~stripsToEmpty(t)
    /\ \A u \in Range(Users) :
          \A i \in DOMAIN messages[u] : ~stripsToEmpty(messages[u][i].text)


\* Some outcome of the pipelines makes a the analysis of txt.
analysisOf(a, txt) ==
    \E inf \in ScriptInferences : a = dictOfCall(txt, inf)

\* C12: whenever a user is selected, last_analysis is the analysis of the
\* last message of that user's conversation, also after the selection has
\* changed; and every message Send appended carries the severity
\* analyze_text computed for its text.
C12_PanelShowsLastMessage ==
    /\ current_user # NoUser =>
          /\ IsSome(last_analysis)
          /\ analysisOf(Get(last_analysis),
                        last_text(messages[current_user]))
    /\ \A u \in Range(Users) :
          \A i \in DOMAIN messages[u] :
              i > Len(DEMO_MESSAGES[u]) =>
                  \E inf \in ScriptInferences :
                      messages[u][i].severity
                          = dictOfCall(messages[u][i].text, inf).severity

=============================================================================
